---- MODULE Spec2Model ----
(***************************************************************************)
(* Model of the masked-token indexing and nearest-neighbour matching       *)
(* helpers of src/util/utils.py: random_token_mask, expand_index_like,     *)
(* get_at_index, set_at_index, mask_at_index and nearest_neighbors; of     *)
(* cosine_scheduler; and of batch_shuffle and batch_unshuffle in local     *)
(* and distributed mode.                                                   *)
(*                                                                         *)
(* Tensors are modelled as nested sequences (1-based in TLA+); the values  *)
(* they hold for sequence positions and candidate numbers are the 0-based  *)
(* indices of the Python code.  Tensor elements are finite numbers,        *)
(* modelled by integers; mask_ratio is an exact rational <<num, den>>.     *)
(***************************************************************************)
EXTENDS Integers, Sequences, FiniteSets, TLC

\* ------------------------------------------------------------------------
\* Bounds of the model
\* ------------------------------------------------------------------------
MaxBatch == 2
MaxSeqLen == 4
\* at most MaxElems = batch_size * sequence_length elements in an index tensor
MaxElems == 8
\* feature dimension D of a token batch
MaxDim == 2
\* columns K of an index tensor, and at most MaxIdxElems = B * K entries in it
MaxIdxLen == 3
MaxIdxElems == 4
\* input vectors I and candidate vectors C of nearest_neighbors, and at most
\* MaxDistElems = B * I * C entries in the distance tensor
MaxInputs == 3
MaxCands == 3
MaxDistElems == 6
\* arguments epochs, niter_per_ep and warmup_epochs of cosine_scheduler
MaxEpochs == 4
MaxIterPerEp == 4
MaxWarmup == 4
\* ranks G of the process group, rows n of a rank's batch, and at most
\* MaxGlobal = G * n rows in the gathered batch
MaxRanks == 2
MaxLocal == 3
MaxGlobal == 4

\* ------------------------------------------------------------------------
\* Python / torch primitives
\* ------------------------------------------------------------------------
Max(a, b) == IF a >= b THEN a ELSE b

Min(a, b) == IF a <= b THEN a ELSE b

\* int(n / d) for d > 0: Python's int() truncates towards zero.
PyInt(n, d) == IF n >= 0 THEN n \div d ELSE -((-n) \div d)

\* The bound of a Python slice: negative bounds count from the end, and the
\* result is clipped to [0, len].
PySliceBound(len, n) == IF n < 0 THEN Max(len + n, 0) ELSE Min(n, len)

\* seq[:n]
PySliceTo(seq, n) == SubSeq(seq, 1, PySliceBound(Len(seq), n))

\* Mutant of PySliceFrom: the slice starts one element late (seq[n+1:]).
PySliceFromSkipsOne(seq, n) == SubSeq(seq, PySliceBound(Len(seq), n) + 2, Len(seq))

\* seq[n:]
PySliceFrom(seq, n) == SubSeq(seq, PySliceBound(Len(seq), n) + 1, Len(seq))

\* All orderings of the positions 0..len-1.
Permutations0(len) ==
    {p \in [1..len -> 0..(len - 1)] : \A i, j \in 1..len : p[i] = p[j] => i = j}

\* The values torch.rand can draw, two levels of [0, 1); equal draws happen.
NoiseValues == {0, 1}

\* torch.rand(batch_size, sequence_length)
TorchRand(batch_size, sequence_length) ==
    [1..batch_size -> [1..sequence_length -> NoiseValues]]

\* p sorts one row ascending, as torch.argsort does.  The sort is not stable
\* (stable=False is the default): equal elements come out in any order.
SortsAscending(row, p) ==
    \A i, j \in 1..Len(row) : i < j => row[p[i] + 1] <= row[p[j] + 1]

\* torch.argsort(noise, dim=1): every row sorted on its own.
Argsort(noise, sequence_length) ==
    {ind \in [1..Len(noise) -> Permutations0(sequence_length)] :
        \A b \in 1..Len(noise) : SortsAscending(noise[b], ind[b])}

\* ------------------------------------------------------------------------
\* Tensors: [shape |-> <<...>>, data |-> nested sequences]; a Python scalar
\* has the empty shape.
\* ------------------------------------------------------------------------
Tensor(shape, data) == [shape |-> shape, data |-> data]

Scalar(c) == Tensor(<<>>, c)

\* A tensor of the given 3-d shape holding start, start+1, ... in row-major
\* order: all elements differ.
Arange(shape, start) ==
    Tensor(shape,
           [b \in 1..shape[1] |-> [p \in 1..shape[2] |-> [d \in 1..shape[3] |->
               start + ((b - 1) * shape[2] + (p - 1)) * shape[3] + (d - 1)]]])

\* A tensor of the given 3-d shape holding c everywhere.
Full(shape, c) ==
    Tensor(shape,
           [b \in 1..shape[1] |-> [p \in 1..shape[2] |-> [d \in 1..shape[3] |-> c]]])

\* The set of sequences that take their i-th element from the i-th set.
RECURSIVE SeqProduct(_)
SeqProduct(sets) ==
    IF sets = <<>>
    THEN {<<>>}
    ELSE {<<x>> \o rest : x \in Head(sets), rest \in SeqProduct(Tail(sets))}

\* index.unsqueeze(-1).expand(-1, -1, dim)
UnsqueezeExpand(index, dim) ==
    Tensor(<<index.shape[1], index.shape[2], dim>>,
           [b \in 1..index.shape[1] |-> [k \in 1..index.shape[2] |->
               [d \in 1..dim |-> index.data[b][k]]]])

\* torch.gather(input, 1, index) raises unless index fits input in the other
\* dimensions and every entry of index is in [0, input.size(1)).
GatherDefined(input, index) ==
    /\ index.shape[1] <= input.shape[1]
    /\ index.shape[3] <= input.shape[3]
    /\ \A b \in 1..index.shape[1], k \in 1..index.shape[2], d \in 1..index.shape[3] :
         index.data[b][k][d] \in 0..(input.shape[2] - 1)

\* Mutant of TorchGather: the position read is one too far (wrapping round),
\* out[b][k][d] = input[b][(index[b][k][d] + 1) % L][d].
TorchGatherNext(input, index) ==
    Tensor(index.shape,
           [b \in 1..index.shape[1] |-> [k \in 1..index.shape[2] |->
               [d \in 1..index.shape[3] |->
                   input.data[b][((index.data[b][k][d] + 1) % input.shape[2]) + 1][d]]]])

\* torch.gather(input, 1, index): out[b][k][d] = input[b][index[b][k][d]][d]
TorchGather(input, index) ==
    Tensor(index.shape,
           [b \in 1..index.shape[1] |-> [k \in 1..index.shape[2] |->
               [d \in 1..index.shape[3] |->
                   input.data[b][index.data[b][k][d] + 1][d]]]])

\* The element scatter reads for the place (b, k, d) of index: src[b][k][d] of
\* a tensor, the value itself of a scalar.
SrcAt(src, b, k, d) == IF src.shape = <<>> THEN src.data ELSE src.data[b][k][d]

\* torch.scatter(input, 1, index, src) raises unless index fits input and src
\* in the other dimensions and every entry of index is in [0, input.size(1)).
ScatterDefined(input, index, src) ==
    /\ index.shape[1] <= input.shape[1]
    /\ index.shape[3] <= input.shape[3]
    /\ src.shape # <<>> =>
         /\ Len(src.shape) = 3
         /\ \A n \in 1..3 : index.shape[n] <= src.shape[n]
    /\ \A b \in 1..index.shape[1], k \in 1..index.shape[2], d \in 1..index.shape[3] :
         index.data[b][k][d] \in 0..(input.shape[2] - 1)

\* The places k of index that write to element (b, p, d) of the result
\* (p is 0-based).
Writers(index, b, p, d) == {k \in 1..index.shape[2] : index.data[b][k][d] = p}

\* Mutant of TorchScatter: the k-th source row is written to row k of the
\* result, the index being ignored (result[b][k][d] = src[b][k][d]).
TorchScatterByPlace(input, index, src) ==
    {Tensor(input.shape,
            [b \in 1..input.shape[1] |-> [p \in 1..input.shape[2] |->
                [d \in 1..input.shape[3] |->
                    IF b <= index.shape[1] /\ p <= index.shape[2] /\ d <= index.shape[3]
                    THEN SrcAt(src, b, p, d)
                    ELSE input.data[b][p][d]]]])}

\* torch.scatter(input, 1, index, src), out of place: the results it can
\* return.  result[b][index[b][k][d]][d] = src[b][k][d], every other element
\* is that of input; when several places of index name the same element,
\* which of their values it ends with is not determined.
TorchScatter(input, index, src) ==
    LET Written(b, p, d) ==
            IF b <= index.shape[1] /\ d <= index.shape[3] /\ Writers(index, b, p - 1, d) # {}
            THEN {SrcAt(src, b, k, d) : k \in Writers(index, b, p - 1, d)}
            ELSE {input.data[b][p][d]}
        Rows(b, p) == SeqProduct([d \in 1..input.shape[3] |-> Written(b, p, d)])
        Batch(b) == SeqProduct([p \in 1..input.shape[2] |-> Rows(b, p)])
    IN {Tensor(input.shape, data) :
            data \in SeqProduct([b \in 1..input.shape[1] |-> Batch(b)])}

\* tokens.new_zeros(tokens.shape)
NewZeros(tokens) == Full(tokens.shape, 0)

\* ------------------------------------------------------------------------
\* State
\* ------------------------------------------------------------------------
VARIABLES
    pc,                 \* random_token_mask: "ready" (arguments chosen),
                        \* "done" (returned); "idle" when it is not in use
    size,               \* <<batch_size, sequence_length>>
    mask_ratio,         \* <<num, den>>, the rational num / den
    mask_class_token,   \* BOOLEAN
    noise,              \* the noise tensor as it is when argsort reads it
    idx_keep,           \* first returned tensor
    idx_mask,           \* second returned tensor
    heap,               \* the tensors that exist, by object number 1..Len(heap)
    origin,             \* for every object of heap, the call that returned it
    owned,              \* the caller's arguments: object numbers and scalars
    epochs,             \* cosine_scheduler: argument epochs
    niter_per_ep,       \* cosine_scheduler: argument niter_per_ep
    warmup_epochs,      \* cosine_scheduler: argument warmup_epochs
    schedule,           \* cosine_scheduler: the local schedule after line 493
    outcome,            \* cosine_scheduler: "pending", "returned" or
                        \* "AssertionError"; "idle" when it is not in use
    distributed,        \* batch_shuffle: the argument distributed
    world_size,         \* dist.get_world_size(); 1 in local mode
    batch,              \* by rank, the batch the rank passes to batch_shuffle
    rank_pc,            \* by rank, the position of the rank in its code
    gather_in,          \* by all_gather call (1, 2) and rank, the tensor the
                        \* rank contributed, None before it has
    batch_gather,       \* by rank, the local batch_gather of line 299
    local_perm,         \* by rank, what torch.randperm returned on the rank
    idx_shuffle,        \* by rank, the local idx_shuffle
    bcast,              \* what rank 0 has broadcast, None before it has
    shuffle,            \* by rank, the shuffle index returned to the rank
    shuffled,           \* by rank, the batch returned by batch_shuffle
    unshuffled          \* by rank, the batch returned by batch_unshuffle

vars == <<pc, size, mask_ratio, mask_class_token, noise, idx_keep, idx_mask,
          heap, origin, owned,
          epochs, niter_per_ep, warmup_epochs, schedule, outcome,
          distributed, world_size, batch, rank_pc, gather_in, batch_gather,
          local_perm, idx_shuffle, bcast, shuffle, shuffled, unshuffled>>

maskVars == <<pc, size, mask_ratio, mask_class_token, noise, idx_keep, idx_mask>>

tensorVars == <<heap, origin, owned>>

schedVars == <<epochs, niter_per_ep, warmup_epochs, schedule, outcome>>

shuffleVars == <<distributed, world_size, batch, rank_pc, gather_in,
                 batch_gather, local_perm, idx_shuffle, bcast, shuffle,
                 shuffled, unshuffled>>

\* batch_shuffle and batch_unshuffle are not in use: there are no ranks.
ShuffleIdle ==
    /\ distributed = FALSE
    /\ world_size = 0
    /\ batch = <<>>
    /\ rank_pc = <<>>
    /\ gather_in = <<>>
    /\ batch_gather = <<>>
    /\ local_perm = <<>>
    /\ idx_shuffle = <<>>
    /\ bcast = <<>>
    /\ shuffle = <<>>
    /\ shuffled = <<>>
    /\ unshuffled = <<>>

\* cosine_scheduler is not in use.
SchedIdle ==
    /\ epochs = 0
    /\ niter_per_ep = 0
    /\ warmup_epochs = 0
    /\ schedule = <<>>
    /\ outcome = "idle"

\* Python's None, and an integer argument n.
None == <<>>

IntArg(n) == <<n>>

\* The record kept for an object: the function that returned it, the object
\* numbers of its tensor arguments, its num_matches argument and which of the
\* returned tensors it is.  Caller-owned arrays have fn = "caller".
Call(fn, args, k, out) == [fn |-> fn, args |-> args, k |-> k, out |-> out]

ByCaller == Call("caller", <<>>, None, 1)

\* No call has returned yet: every object is a caller-owned array.
Fresh == \A o \in 1..Len(origin) : origin[o].fn = "caller"

\* A torch operation that returns a new tensor: the heap with the tensor
\* added, and the number of the new object.
Alloc(h, t) == [heap |-> Append(h, t), ret |-> Len(h) + 1]

\* Mutant of ScatterOut: the in-place scatter_ writes the result into input.
ScatterInPlace(h, input, t) == [heap |-> [h EXCEPT ![input] = t], ret |-> input]

\* torch.scatter (not scatter_) leaves input alone and returns a new tensor.
ScatterOut(h, input, t) == Alloc(h, t)

\* The origin records after object ret was returned by call.
Returned(org, ret, call) ==
    IF ret <= Len(org) THEN [org EXCEPT ![ret] = call] ELSE Append(org, call)

\* ------------------------------------------------------------------------
\* random_token_mask
\* ------------------------------------------------------------------------
\* mask_ratio values in [0, 1]; 3/5 is the default 0.6.
MaskRatios == {<<0, 1>>, <<1, 4>>, <<1, 3>>, <<1, 2>>, <<3, 5>>, <<3, 4>>, <<1, 1>>}

\* Values of mask_ratio below 0 and above 1, as <<numerator, denominator>>.
RatiosOutside == {<<-1, 1>>, <<-1, 2>>, <<5, 4>>, <<3, 2>>, <<2, 1>>}

\* num_keep = int(sequence_length * (1 - mask_ratio))
NumKeepInit(sequence_length, ratio) ==
    PyInt(sequence_length * (ratio[2] - ratio[1]), ratio[2])

\* if not mask_class_token and sequence_length > 0
ProtectClassToken(flag, sequence_length) == (~flag) /\ sequence_length > 0

\* Mutant of NumKeep: the clamp max(1, num_keep) is left out.
NumKeepNoClamp(sequence_length, ratio, flag) == NumKeepInit(sequence_length, ratio)

\* Mutant of NumKeep: the clamp is applied whatever mask_class_token is.
NumKeepClampAlways(sequence_length, ratio, flag) ==
    Max(1, NumKeepInit(sequence_length, ratio))

\* num_keep after the branch: num_keep = max(1, num_keep)
NumKeep(sequence_length, ratio, flag) ==
    IF ProtectClassToken(flag, sequence_length)
    THEN Max(1, NumKeepInit(sequence_length, ratio))
    ELSE NumKeepInit(sequence_length, ratio)

\* Mutant of ForceClassToken: column 0 is set to the top of the range, not
\* below it (noise[:, 0] = 1).
ForceClassTokenHigh(drawn, flag, sequence_length) ==
    IF ProtectClassToken(flag, sequence_length)
    THEN [b \in 1..Len(drawn) |-> [drawn[b] EXCEPT ![1] = 1]]
    ELSE drawn

\* noise[:, 0] = -1 in the branch
ForceClassToken(drawn, flag, sequence_length) ==
    IF ProtectClassToken(flag, sequence_length)
    THEN [b \in 1..Len(drawn) |-> [drawn[b] EXCEPT ![1] = -1]]
    ELSE drawn

\* The caller's arguments of one call, mask_ratio drawn from the given set.
MaskCall(ratios) ==
    /\ pc = "ready"
    /\ size \in {sz \in (0..MaxBatch) \X (0..MaxSeqLen) : sz[1] * sz[2] <= MaxElems}
    /\ mask_ratio \in ratios
    /\ mask_class_token \in BOOLEAN
    /\ noise = <<>>
    /\ idx_keep = <<>>
    /\ idx_mask = <<>>
    /\ heap = <<>>
    /\ origin = <<>>
    /\ owned = [family |-> "mask"]
    /\ SchedIdle
    /\ ShuffleIdle

InitMask == MaskCall(MaskRatios)

\* Callers that do not keep mask_ratio inside [0, 1]: the function takes any
\* float.
InitMaskAny == MaskCall(MaskRatios \cup RatiosOutside)

random_token_mask ==
    /\ pc = "ready"
    /\ \E drawn \in TorchRand(size[1], size[2]) :
         LET forced == ForceClassToken(drawn, mask_class_token, size[2])
             num_keep == NumKeep(size[2], mask_ratio, mask_class_token)
         IN \E indices \in Argsort(forced, size[2]) :
              /\ noise' = forced
              /\ idx_keep' = [b \in 1..size[1] |-> PySliceTo(indices[b], num_keep)]
              /\ idx_mask' = [b \in 1..size[1] |-> PySliceFrom(indices[b], num_keep)]
    /\ pc' = "done"
    /\ UNCHANGED <<size, mask_ratio, mask_class_token>>
    /\ UNCHANGED tensorVars
    /\ UNCHANGED schedVars
    /\ UNCHANGED shuffleVars

NextMask == random_token_mask

SpecMask == InitMask /\ [][NextMask]_vars

SpecMaskAny == InitMaskAny /\ [][NextMask]_vars

\* ------------------------------------------------------------------------
\* Properties of random_token_mask (checked under SpecMask)
\* ------------------------------------------------------------------------
\* Number of places of seq that hold x.
Occurrences(seq, x) == Cardinality({i \in 1..Len(seq) : seq[i] = x})

\* floor(L * (1 - mask_ratio)) over the rationals.
FloorKeep(L, ratio) == (L * (ratio[2] - ratio[1])) \div ratio[2]

MaskReturned == pc = "done"

\* C1: in every batch row, every position of {0..L-1} occurs exactly once in
\* the row of index_keep followed by the row of index_mask, and nothing else
\* occurs there: the two index sets partition the positions.
C1_Partition ==
    MaskReturned =>
        /\ Len(idx_keep) = size[1]
        /\ Len(idx_mask) = size[1]
        /\ \A b \in 1..size[1] :
             LET both == idx_keep[b] \o idx_mask[b]
             IN /\ Len(both) = size[2]
                /\ \A p \in 0..(size[2] - 1) : Occurrences(both, p) = 1

\* C1 witness: a batch of two rows of four positions was split into two
\* non-empty parts, differently in the two rows, from noise with equal draws.
C1_Witness ==
    /\ MaskReturned
    /\ size = <<2, 4>>
    /\ Len(idx_keep[1]) = 2
    /\ Len(idx_mask[1]) = 2
    /\ idx_keep[1] # idx_keep[2]
    /\ noise[1][3] = noise[1][4]

\* C2: with mask_class_token = False and L >= 1, position 0 is in index_keep
\* and not in index_mask in every batch row, whatever mask_ratio and noise.
C2_ClassTokenKept ==
    (MaskReturned /\ ~mask_class_token /\ size[2] >= 1) =>
        \A b \in 1..size[1] :
            /\ Occurrences(idx_keep[b], 0) >= 1
            /\ Occurrences(idx_mask[b], 0) = 0

\* C2 witness: mask_ratio = 1.0 without class-token masking on two rows of
\* three positions: position 0 is what is kept.
C2_Witness ==
    /\ MaskReturned
    /\ ~mask_class_token
    /\ mask_ratio = <<1, 1>>
    /\ size = <<2, 3>>
    /\ idx_keep = <<(<<0>>), (<<0>>)>>

\* C3 as claimed: index_keep has num_keep columns and index_mask L - num_keep
\* columns in every row, with num_keep = floor(L*(1-mask_ratio)) when
\* mask_class_token = True and max(1, floor(L*(1-mask_ratio))) when it is False.
C3_ShapesAsClaimed ==
    MaskReturned =>
        LET k == IF mask_class_token
                 THEN FloorKeep(size[2], mask_ratio)
                 ELSE Max(1, FloorKeep(size[2], mask_ratio))
        IN \A b \in 1..size[1] :
               /\ Len(idx_keep[b]) = k
               /\ Len(idx_mask[b]) = size[2] - k

\* C3 (amended): index_keep has num_keep columns and index_mask L - num_keep
\* columns in every row, with num_keep = floor(L*(1-mask_ratio)), raised to
\* at least 1 only when mask_class_token = False and L > 0 (for L = 0 both
\* tensors have no columns).
C3_Shapes ==
    MaskReturned =>
        LET k == IF mask_class_token \/ size[2] = 0
                 THEN FloorKeep(size[2], mask_ratio)
                 ELSE Max(1, FloorKeep(size[2], mask_ratio))
        IN \A b \in 1..size[1] :
               /\ Len(idx_keep[b]) = k
               /\ Len(idx_mask[b]) = size[2] - k

\* C3 witness: the clamp decided the shape: L = 2 and mask_ratio = 3/4 give
\* floor(2 * 1/4) = 0, and one column is kept in both rows.
C3_Witness ==
    /\ MaskReturned
    /\ ~mask_class_token
    /\ size = <<2, 2>>
    /\ mask_ratio = <<3, 4>>
    /\ Len(idx_keep[1]) = 1
    /\ Len(idx_keep[2]) = 1
    /\ Len(idx_mask[2]) = 1

\* mask_ratio is a value below 0 or above 1.
RatioOutside == mask_ratio[1] < 0 \/ mask_ratio[1] > mask_ratio[2]

\* C11: a call of random_token_mask with mask_ratio outside [0, 1] does not
\* return index sets (it fails with InvalidParameter): no such value is
\* accepted. Checked under SpecMaskAny, where callers pass such values.
C11_OutsideRejected == RatioOutside => ~MaskReturned

\* C13: with mask_ratio = 1.0 and L >= 1, mask_class_token = True returns an
\* index_keep of shape (B, 0) and an index_mask of shape (B, L) holding every
\* position, position 0 included; mask_class_token = False returns an
\* index_keep of shape (B, 1) equal to [0] in every row.
C13_ClampOnlyWhenProtected ==
    (MaskReturned /\ mask_ratio = <<1, 1>> /\ size[2] >= 1) =>
        /\ Len(idx_keep) = size[1]
        /\ Len(idx_mask) = size[1]
        /\ \A b \in 1..size[1] :
             IF mask_class_token
             THEN /\ idx_keep[b] = <<>>
                  /\ Len(idx_mask[b]) = size[2]
                  /\ \A p \in 0..(size[2] - 1) : Occurrences(idx_mask[b], p) = 1
             ELSE idx_keep[b] = <<0>>

\* C13 witness: mask_ratio = 1.0 with class-token masking on two rows of
\* three positions: nothing is kept and position 0 is masked in both rows,
\* first in one row and not first in the other.
C13_Witness ==
    /\ MaskReturned
    /\ mask_class_token
    /\ mask_ratio = <<1, 1>>
    /\ size = <<2, 3>>
    /\ idx_keep = <<(<<>>), (<<>>)>>
    /\ idx_mask[1][1] = 0
    /\ idx_mask[2][1] # 0
    /\ Occurrences(idx_mask[2], 0) = 1

\* ------------------------------------------------------------------------
\* expand_index_like, get_at_index, set_at_index, mask_at_index
\* ------------------------------------------------------------------------
\* dim = tokens.shape[-1]; index.unsqueeze(-1).expand(-1, -1, dim)
expand_index_like(index, tokens) == UnsqueezeExpand(index, tokens.shape[3])

\* torch.gather(tokens, 1, expand_index_like(index, tokens))
GetAtIndex(tokens, index) == TorchGather(tokens, expand_index_like(index, tokens))

\* torch.scatter(tokens, 1, expand_index_like(index, tokens), value): the
\* tensors it can return.
SetAtIndex(tokens, index, value) ==
    TorchScatter(tokens, expand_index_like(index, tokens), value)

\* Element (b, p, d) of t broadcast to a larger shape: a dimension of size 1
\* is read at its only place.
BroadcastAt(t, b, p, d) ==
    t.data[IF t.shape[1] = 1 THEN 1 ELSE b]
          [IF t.shape[2] = 1 THEN 1 ELSE p]
          [IF t.shape[3] = 1 THEN 1 ELSE d]

\* Mutant of Blend: the two factors are exchanged,
\* mask * tokens + (1 - mask) * mask_token.
BlendSwapped(mask, tokens, mask_token) ==
    Tensor(tokens.shape,
           [b \in 1..tokens.shape[1] |-> [p \in 1..tokens.shape[2] |->
               [d \in 1..tokens.shape[3] |->
                   mask.data[b][p][d] * tokens.data[b][p][d]
                   + (1 - mask.data[b][p][d]) * BroadcastAt(mask_token, b, p, d)]]])

\* (1 - mask) * tokens + mask * mask_token
Blend(mask, tokens, mask_token) ==
    Tensor(tokens.shape,
           [b \in 1..tokens.shape[1] |-> [p \in 1..tokens.shape[2] |->
               [d \in 1..tokens.shape[3] |->
                   (1 - mask.data[b][p][d]) * tokens.data[b][p][d]
                   + mask.data[b][p][d] * BroadcastAt(mask_token, b, p, d)]]])

\* mask = tokens.new_zeros(tokens.shape); mask = set_at_index(mask, index, 1);
\* return (1 - mask) * tokens + mask * mask_token
MaskAtIndex(tokens, index, mask_token) ==
    {Blend(mask, tokens, mask_token) :
        mask \in SetAtIndex(NewZeros(tokens), index, Scalar(1))}

\* mask_token broadcasts over tokens: shape (1, 1, dim).
BlendDefined(tokens, mask_token) ==
    \A n \in 1..3 : mask_token.shape[n] \in {1, tokens.shape[n]}

\* The token batches, index tensors and value tensors the caller passes.
TokenInputs(shape) == {Arange(shape, -2), Full(shape, 3)}

IndexInputs(B, K, L) ==
    {Tensor(<<B, K>>, data) : data \in [1..B -> [1..K -> 0..(L - 1)]]}

ValueInputs(shape) == {Arange(shape, 101)}

MaskTokenInputs(D) == {Arange(<<1, 1, D>>, 201), Full(<<1, 1, D>>, 0)}

InitIndex ==
    /\ \E B \in 1..MaxBatch, L \in 1..MaxSeqLen, D \in 1..MaxDim, K \in 0..MaxIdxLen :
         /\ B * L <= MaxElems
         /\ B * K <= MaxIdxElems
         /\ \E tokens \in TokenInputs(<<B, L, D>>), index \in IndexInputs(B, K, L),
               value \in ValueInputs(<<B, K, D>>), mask_token \in MaskTokenInputs(D) :
              heap = <<tokens, index, value, mask_token>>
    /\ origin = <<ByCaller, ByCaller, ByCaller, ByCaller>>
    /\ owned = [family |-> "index", tokens |-> 1, index |-> 2, value |-> 3, mask_token |-> 4]

\* The caller makes one call on its arrays, or the two calls
\* set_at_index(tokens, idx, get_at_index(tokens, idx)): the objects it can
\* pass as value are its value tensor, as the first call, and the tensor
\* get_at_index has just returned.
ValueArgs ==
    IF Fresh
    THEN {owned.value}
    ELSE {o \in {Len(heap)} :
            /\ \A n \in 1..(Len(origin) - 1) : origin[n].fn = "caller"
            /\ origin[o] = Call("get_at_index", <<owned.tokens, owned.index>>, None, 1)}

get_at_index ==
    /\ owned.family = "index"
    /\ Fresh
    /\ \E tokens \in {owned.tokens} :
         /\ GatherDefined(heap[tokens], expand_index_like(heap[owned.index], heap[tokens]))
         /\ LET r == Alloc(heap, GetAtIndex(heap[tokens], heap[owned.index]))
            IN /\ heap' = r.heap
               /\ origin' = Returned(origin, r.ret,
                                     Call("get_at_index", <<tokens, owned.index>>, None, 1))
    /\ UNCHANGED owned
    /\ UNCHANGED maskVars
    /\ UNCHANGED schedVars
    /\ UNCHANGED shuffleVars

set_at_index ==
    /\ owned.family = "index"
    /\ \E tokens \in {owned.tokens} :
         \E value \in ValueArgs :
           /\ ScatterDefined(heap[tokens], expand_index_like(heap[owned.index], heap[tokens]),
                             heap[value])
           /\ \E result \in SetAtIndex(heap[tokens], heap[owned.index], heap[value]) :
                LET r == ScatterOut(heap, tokens, result)
                IN /\ heap' = r.heap
                   /\ origin' = Returned(origin, r.ret,
                                         Call("set_at_index", <<tokens, owned.index, value>>,
                                              None, 1))
    /\ UNCHANGED owned
    /\ UNCHANGED maskVars
    /\ UNCHANGED schedVars
    /\ UNCHANGED shuffleVars

mask_at_index ==
    /\ owned.family = "index"
    /\ Fresh
    /\ \E tokens \in {owned.tokens} :
         /\ ScatterDefined(heap[tokens], expand_index_like(heap[owned.index], heap[tokens]),
                           Scalar(1))
         /\ BlendDefined(heap[tokens], heap[owned.mask_token])
         /\ \E result \in MaskAtIndex(heap[tokens], heap[owned.index], heap[owned.mask_token]) :
              LET r == Alloc(heap, result)
              IN /\ heap' = r.heap
                 /\ origin' = Returned(origin, r.ret,
                                       Call("mask_at_index",
                                            <<tokens, owned.index, owned.mask_token>>, None, 1))
    /\ UNCHANGED owned
    /\ UNCHANGED maskVars
    /\ UNCHANGED schedVars
    /\ UNCHANGED shuffleVars

\* ------------------------------------------------------------------------
\* nearest_neighbors
\* ------------------------------------------------------------------------
\* Mutant of NumMatches: the normalised value is one short,
\* num_matches = input_maps.size(1) - 1.
NumMatchesOneShort(num_matches, input_map_size) ==
    IF num_matches = None THEN input_map_size - 1
    ELSE IF num_matches[1] = -1 \/ num_matches[1] > input_map_size THEN input_map_size - 1
    ELSE num_matches[1]

\* if num_matches is None or num_matches == -1 or num_matches > input_maps.size(1):
\*     num_matches = input_maps.size(1)
NumMatches(num_matches, input_map_size) ==
    IF num_matches = None THEN input_map_size
    ELSE IF num_matches[1] = -1 \/ num_matches[1] > input_map_size THEN input_map_size
    ELSE num_matches[1]

\* topk(k, largest=False) along a dimension of size len raises unless
\* 0 <= k <= len.
TopkDefined(len, k) == k \in 0..len

\* Mutant of TopkSmallest: largest=True, the places of the k largest values in
\* descending order.
TopkLargest(values, k) ==
    {ind \in [1..k -> 0..(Len(values) - 1)] :
        /\ \A m1, m2 \in 1..k : ind[m1] = ind[m2] => m1 = m2
        /\ \A m1, m2 \in 1..k : m1 < m2 => values[ind[m1] + 1] >= values[ind[m2] + 1]
        /\ \A m \in 1..k, i \in 1..Len(values) :
             (\A m2 \in 1..k : ind[m2] # i - 1) => values[ind[m] + 1] >= values[i]}

\* values.topk(k, largest=False) of one row: the index rows it can return,
\* the (0-based) places of the k smallest values in ascending order of value;
\* which of several equal values is taken, and in which order, is not
\* determined.
TopkSmallest(values, k) ==
    {ind \in [1..k -> 0..(Len(values) - 1)] :
        /\ \A m1, m2 \in 1..k : ind[m1] = ind[m2] => m1 = m2
        /\ \A m1, m2 \in 1..k : m1 < m2 => values[ind[m1] + 1] <= values[ind[m2] + 1]
        /\ \A m \in 1..k, i \in 1..Len(values) :
             (\A m2 \in 1..k : ind[m2] # i - 1) => values[ind[m] + 1] <= values[i]}

\* distances.topk(k=1, dim=2, largest=False): the index tensors (B, I, 1) it
\* can return.
NearestCandidates(distances) ==
    {Tensor(<<distances.shape[1], distances.shape[2], 1>>, data) :
        data \in SeqProduct([b \in 1..distances.shape[1] |->
                    SeqProduct([i \in 1..distances.shape[2] |->
                        TopkSmallest(distances.data[b][i], 1)])])}

\* topk_values.squeeze(-1): the distance of every input to the candidate
\* topk_indices names for it, shape (B, I).
NearestValues(distances, topk_indices) ==
    [b \in 1..distances.shape[1] |-> [i \in 1..distances.shape[2] |->
        distances.data[b][i][topk_indices.data[b][i][1] + 1]]]

\* topk_values.topk(k=num_matches, dim=1, largest=False): the index tensors
\* (B, num_matches) it can return.
LowestDistances(topk_values, k) ==
    {Tensor(<<Len(topk_values), k>>, data) :
        data \in SeqProduct([b \in 1..Len(topk_values) |-> TopkSmallest(topk_values[b], k)])}

\* topk_indices.expand(-1, -1, feature_dimension)
ExpandLast(index, dim) ==
    Tensor(<<index.shape[1], index.shape[2], dim>>,
           [b \in 1..index.shape[1] |-> [k \in 1..index.shape[2] |->
               [d \in 1..dim |-> index.data[b][k][1]]]])

\* The calls nearest_neighbors makes raise unless both topk calls are given a
\* valid k (there is a candidate, and the normalised num_matches is in 0..I)
\* and the gathers fit: the batch sizes agree and candidate_maps has the
\* feature dimension of input_maps.
NearestNeighborsDefined(input_maps, candidate_maps, distances, num_matches) ==
    /\ distances.shape = <<input_maps.shape[1], input_maps.shape[2], candidate_maps.shape[2]>>
    /\ candidate_maps.shape[1] = input_maps.shape[1]
    /\ candidate_maps.shape[3] >= input_maps.shape[3]
    /\ TopkDefined(distances.shape[3], 1)
    /\ TopkDefined(distances.shape[2], NumMatches(num_matches, input_maps.shape[2]))

\* Mutant of NearestNeighbors: the candidates are not gathered at min_indices;
\* the first num_matches rows of selected_candidate_maps are returned.
NearestNeighborsUnfiltered(input_maps, candidate_maps, distances, num_matches) ==
    LET k == NumMatches(num_matches, input_maps.shape[2])
        feature_dimension == input_maps.shape[3]
        first == Tensor(<<input_maps.shape[1], k>>,
                        [b \in 1..input_maps.shape[1] |-> [m \in 1..k |-> m - 1]])
    IN UNION {
         {<<TorchGather(input_maps, UnsqueezeExpand(min_indices, feature_dimension)),
            TorchGather(TorchGather(candidate_maps, ExpandLast(topk_indices, feature_dimension)),
                        UnsqueezeExpand(first, feature_dimension))>> :
             min_indices \in LowestDistances(NearestValues(distances, topk_indices), k)} :
         topk_indices \in NearestCandidates(distances)}

\* The pairs <<filtered_input_maps, filtered_candidate_maps>> that
\* nearest_neighbors can return.
NearestNeighbors(input_maps, candidate_maps, distances, num_matches) ==
    LET k == NumMatches(num_matches, input_maps.shape[2])
        feature_dimension == input_maps.shape[3]
    IN UNION {
         {<<TorchGather(input_maps, UnsqueezeExpand(min_indices, feature_dimension)),
            TorchGather(TorchGather(candidate_maps, ExpandLast(topk_indices, feature_dimension)),
                        UnsqueezeExpand(min_indices, feature_dimension))>> :
             min_indices \in LowestDistances(NearestValues(distances, topk_indices), k)} :
         topk_indices \in NearestCandidates(distances)}

\* The distances, scalars and maps the caller passes.
DistanceValues == {0, 1, 2}

DistanceInputs(B, I, C) ==
    {Tensor(<<B, I, C>>, data) : data \in [1..B -> [1..I -> [1..C -> DistanceValues]]]}

NumMatchesInputs(I) == {None} \cup {IntArg(n) : n \in (-2)..(I + 1)}

InitNN ==
    /\ \E B \in 1..MaxBatch, I \in 1..MaxInputs, C \in 1..MaxCands, D \in 1..MaxDim :
         /\ B * I * C <= MaxDistElems
         /\ \E distances \in DistanceInputs(B, I, C) :
              heap = <<Arange(<<B, I, D>>, 1), Arange(<<B, C, D>>, 101), distances>>
         /\ \E num_matches \in NumMatchesInputs(I) :
              owned = [family |-> "nn", input_maps |-> 1, candidate_maps |-> 2,
                       distances |-> 3, num_matches |-> num_matches]
    /\ origin = <<ByCaller, ByCaller, ByCaller>>

nearest_neighbors ==
    /\ owned.family = "nn"
    /\ Fresh
    /\ NearestNeighborsDefined(heap[owned.input_maps], heap[owned.candidate_maps],
                               heap[owned.distances], owned.num_matches)
    /\ \E pair \in NearestNeighbors(heap[owned.input_maps], heap[owned.candidate_maps],
                                    heap[owned.distances], owned.num_matches) :
         LET r1 == Alloc(heap, pair[1])
             r2 == Alloc(r1.heap, pair[2])
             args == <<owned.input_maps, owned.candidate_maps, owned.distances>>
         IN /\ heap' = r2.heap
            /\ origin' = Returned(Returned(origin, r1.ret,
                                           Call("nearest_neighbors", args, owned.num_matches, 1)),
                                  r2.ret,
                                  Call("nearest_neighbors", args, owned.num_matches, 2))
    /\ UNCHANGED owned
    /\ UNCHANGED maskVars
    /\ UNCHANGED schedVars
    /\ UNCHANGED shuffleVars

InitTensor ==
    /\ pc = "idle"
    /\ size = <<0, 0>>
    /\ mask_ratio = <<0, 1>>
    /\ mask_class_token = FALSE
    /\ noise = <<>>
    /\ idx_keep = <<>>
    /\ idx_mask = <<>>
    /\ (InitIndex \/ InitNN)
    /\ SchedIdle
    /\ ShuffleIdle

NextTensor ==
    \/ get_at_index
    \/ set_at_index
    \/ mask_at_index
    \/ nearest_neighbors

SpecTensor == InitTensor /\ [][NextTensor]_vars

\* ------------------------------------------------------------------------
\* Properties of the index utilities (checked under SpecTensor)
\* ------------------------------------------------------------------------
Objects == 1..Len(heap)

\* The objects returned by a call of fn.
ReturnedBy(fn) == {o \in Objects : origin[o].fn = fn}

\* Position p (0-based) occurs in row b of the index tensor.
InIndexRow(index, b, p) == \E k \in 1..index.shape[2] : index.data[b][k] = p

\* The entries of every row of the index tensor are distinct.
RowsDistinct(index) ==
    \A b \in 1..index.shape[1] : \A k1, k2 \in 1..index.shape[2] :
        index.data[b][k1] = index.data[b][k2] => k1 = k2

\* Object s is set_at_index(tokens, idx, get_at_index(tokens, idx)).
IsRoundTrip(s) ==
    /\ origin[s].fn = "set_at_index"
    /\ origin[origin[s].args[3]] =
         Call("get_at_index", <<origin[s].args[1], origin[s].args[2]>>, None, 1)

\* C4: set_at_index(tokens, idx, get_at_index(tokens, idx)) equals tokens
\* element for element, for every index tensor with entries in [0, L),
\* repeated positions included.
C4_RoundTrip ==
    \A s \in Objects : IsRoundTrip(s) => heap[s] = heap[origin[s].args[1]]

\* C4 witness: a round trip was made on a batch of distinct elements with a
\* position repeated in a row of the index.
C4_Witness ==
    \E s \in Objects :
        /\ IsRoundTrip(s)
        /\ origin[s].args[1] = owned.tokens
        /\ heap[owned.tokens] = Arange(heap[owned.tokens].shape, -2)
        /\ heap[owned.tokens].shape[2] >= 2
        /\ heap[owned.index].shape[2] >= 2
        /\ heap[owned.index].data[1][1] = heap[owned.index].data[1][2]

\* C5: in the result r of mask_at_index(tokens, index, mask_token),
\* r[b,p,d] = mask_token[0,0,d] if p occurs in index[b,:], and
\* r[b,p,d] = tokens[b,p,d] otherwise.
C5_MaskAtIndex ==
    \A r \in ReturnedBy("mask_at_index") :
        LET tokens == heap[origin[r].args[1]]
            index == heap[origin[r].args[2]]
            mask_token == heap[origin[r].args[3]]
        IN /\ heap[r].shape = tokens.shape
           /\ \A b \in 1..tokens.shape[1], p \in 1..tokens.shape[2], d \in 1..tokens.shape[3] :
                heap[r].data[b][p][d] =
                    IF InIndexRow(index, b, p - 1)
                    THEN mask_token.data[1][1][d]
                    ELSE tokens.data[b][p][d]

\* C5 witness: mask_at_index returned for two rows of distinct elements, of
\* which the first has position 0 masked and position 1 not, and the second
\* position 1 masked and position 0 not.
C5_Witness ==
    \E r \in ReturnedBy("mask_at_index") :
        LET index == heap[origin[r].args[2]]
        IN /\ origin[r].args[1] = owned.tokens
           /\ heap[owned.tokens] = Arange(heap[owned.tokens].shape, -2)
           /\ heap[owned.tokens].shape[1] = 2
           /\ heap[owned.tokens].shape[3] = 2
           /\ heap[owned.mask_token] = Arange(<<1, 1, 2>>, 201)
           /\ InIndexRow(index, 1, 0) /\ ~InIndexRow(index, 1, 1)
           /\ InIndexRow(index, 2, 1) /\ ~InIndexRow(index, 2, 0)

\* C6: when the entries of each row of index are distinct, the result r of
\* set_at_index(tokens, index, value) has the shape of tokens,
\* r[b, index[b,k], :] = value[b,k,:] for every b and k, and
\* r[b,p,:] = tokens[b,p,:] for every p that does not occur in index[b,:].
C6_SetAtIndex ==
    \A r \in ReturnedBy("set_at_index") :
        LET tokens == heap[origin[r].args[1]]
            index == heap[origin[r].args[2]]
            value == heap[origin[r].args[3]]
        IN RowsDistinct(index) =>
            /\ heap[r].shape = tokens.shape
            /\ \A b \in 1..index.shape[1], k \in 1..index.shape[2] :
                 heap[r].data[b][index.data[b][k] + 1] = value.data[b][k]
            /\ \A b \in 1..tokens.shape[1], p \in 1..tokens.shape[2] :
                 ~InIndexRow(index, b, p - 1) => heap[r].data[b][p] = tokens.data[b][p]

\* C6 witness: set_at_index returned for the caller's tokens and value, two
\* rows with two distinct index entries each, not in ascending order, and a
\* position left as it was.
C6_Witness ==
    \E r \in ReturnedBy("set_at_index") :
        LET index == heap[origin[r].args[2]]
        IN /\ origin[r].args[1] = owned.tokens
           /\ origin[r].args[3] = owned.value
           /\ RowsDistinct(index)
           /\ index.shape = <<2, 2>>
           /\ index.data[1][1] > index.data[1][2]
           /\ heap[owned.tokens].shape[2] >= 3
           /\ heap[owned.tokens].shape[3] = 2
           /\ heap[owned.tokens] = Arange(heap[owned.tokens].shape, -2)

\* ------------------------------------------------------------------------
\* Properties of nearest_neighbors (checked under SpecTensor)
\* ------------------------------------------------------------------------
\* The smallest element of a non-empty row.
MinOf(row) == CHOOSE v \in {row[j] : j \in 1..Len(row)} : \A j \in 1..Len(row) : v <= row[j]

\* d*(i): the distance of input i (0-based) of batch element b to its nearest
\* candidate.
NearestDistance(distances, b, i) == MinOf(distances.data[b][i + 1])

\* The first tensors returned by nearest_neighbors (the second is the next
\* object).
FirstReturned == {r \in ReturnedBy("nearest_neighbors") : origin[r].out = 1}

\* The inputs sel[1], sel[2], ... are k different inputs, in ascending order
\* of d*, and no other input has a smaller d* than one of them.
IsKSmallest(distances, b, sel, k) ==
    /\ \A m1, m2 \in 1..k : sel[m1] = sel[m2] => m1 = m2
    /\ \A m1, m2 \in 1..k :
         m1 < m2 => NearestDistance(distances, b, sel[m1]) <= NearestDistance(distances, b, sel[m2])
    /\ \A m \in 1..k, i \in 0..(distances.shape[2] - 1) :
         (\A m2 \in 1..k : sel[m2] # i) =>
             NearestDistance(distances, b, sel[m]) <= NearestDistance(distances, b, i)

\* C7: with num_matches = k, 1 <= k <= I, nearest_neighbors returns for each
\* batch element exactly k input vectors: inputs whose nearest-candidate
\* distance d* is among the k smallest, in ascending order of d* (all I
\* inputs when k = I).
C7_Selection ==
    \A r \in FirstReturned :
        LET input_maps == heap[origin[r].args[1]]
            distances == heap[origin[r].args[3]]
            I == input_maps.shape[2]
        IN (origin[r].k # None /\ origin[r].k[1] \in 1..I) =>
            LET k == origin[r].k[1]
            IN /\ heap[r].shape = <<input_maps.shape[1], k, input_maps.shape[3]>>
               /\ \A b \in 1..input_maps.shape[1] :
                    \E sel \in [1..k -> 0..(I - 1)] :
                        /\ IsKSmallest(distances, b, sel, k)
                        /\ heap[r].data[b] = [m \in 1..k |-> input_maps.data[b][sel[m] + 1]]

\* C7 witness: two of three inputs were selected, the three nearest-candidate
\* distances being different and not in input order.
C7_Witness ==
    \E r \in FirstReturned :
        LET distances == heap[origin[r].args[3]]
        IN /\ origin[r].k = IntArg(2)
           /\ distances.shape = <<1, 3, 2>>
           /\ NearestDistance(distances, 1, 0) > NearestDistance(distances, 1, 2)
           /\ NearestDistance(distances, 1, 2) > NearestDistance(distances, 1, 1)
           /\ heap[r].data[1] = <<heap[owned.input_maps].data[1][2],
                                  heap[owned.input_maps].data[1][3]>>

\* C8: the m-th entries of the two returned tensors are a consistent pair:
\* the m-th returned input vector is a row input_maps[b,i,:] and the m-th
\* returned candidate vector is a row candidate_maps[b,j,:] with j minimising
\* distances[b,i,j] over the candidates.
C8_Pairs ==
    \A r \in FirstReturned :
        LET input_maps == heap[origin[r].args[1]]
            candidate_maps == heap[origin[r].args[2]]
            distances == heap[origin[r].args[3]]
        IN /\ heap[r + 1].shape = heap[r].shape
           /\ \A b \in 1..heap[r].shape[1], m \in 1..heap[r].shape[2] :
                \E i \in 1..input_maps.shape[2], j \in 1..candidate_maps.shape[2] :
                    /\ heap[r].data[b][m] = input_maps.data[b][i]
                    /\ heap[r + 1].data[b][m] = candidate_maps.data[b][j]
                    /\ distances.data[b][i][j] = NearestDistance(distances, b, i - 1)

\* C8 witness: two pairs were returned whose inputs have different nearest
\* candidates, the first returned input not being input 0 and its candidate
\* not being candidate 0.
C8_Witness ==
    \E r \in FirstReturned :
        LET distances == heap[origin[r].args[3]]
        IN /\ distances.shape = <<1, 2, 2>>
           /\ heap[r].shape[2] = 2
           /\ heap[r].data[1][1] = heap[owned.input_maps].data[1][2]
           /\ heap[r + 1].data[1][1] = heap[owned.candidate_maps].data[1][2]
           /\ heap[r + 1].data[1][2] = heap[owned.candidate_maps].data[1][1]
           /\ distances.data[1][2][2] < distances.data[1][2][1]
           /\ distances.data[1][1][1] < distances.data[1][1][2]

\* C9: called with num_matches None, -1 or greater than I, nearest_neighbors
\* returns what the call with num_matches = I can return, I entries per batch
\* element in both tensors; called with 1 <= num_matches <= I it returns
\* num_matches entries per batch element in both tensors.
C9_Normalised ==
    \A r \in FirstReturned :
        LET input_maps == heap[origin[r].args[1]]
            candidate_maps == heap[origin[r].args[2]]
            distances == heap[origin[r].args[3]]
            I == input_maps.shape[2]
            num_matches == origin[r].k
        IN /\ (num_matches = None \/ num_matches = IntArg(-1)
                 \/ (num_matches # None /\ num_matches[1] > I)) =>
                /\ heap[r].shape[2] = I
                /\ heap[r + 1].shape[2] = I
                /\ Len(heap[r].data[1]) = I
                /\ Len(heap[r + 1].data[1]) = I
                /\ <<heap[r], heap[r + 1]>> \in
                       NearestNeighbors(input_maps, candidate_maps, distances, IntArg(I))
           /\ (num_matches # None /\ num_matches[1] \in 1..I) =>
                /\ heap[r].shape[2] = num_matches[1]
                /\ heap[r + 1].shape[2] = num_matches[1]
                /\ Len(heap[r].data[1]) = num_matches[1]
                /\ Len(heap[r + 1].data[1]) = num_matches[1]

\* C9 witness: calls with None, with -1 and with I + 1 returned, for three
\* inputs, three entries.
C9_Witness ==
    \E r \in FirstReturned :
        /\ heap[owned.input_maps].shape[2] = 3
        /\ origin[r].k \in {None, IntArg(-1), IntArg(4)}
        /\ heap[r].shape[2] = 3

\* ------------------------------------------------------------------------
\* Frame property (checked under SpecTensor)
\* ------------------------------------------------------------------------
\* C10: a call of get_at_index, set_at_index, mask_at_index or
\* nearest_neighbors changes none of the arrays that exist when it is made,
\* its arguments among them, and what it returns are new arrays, distinct
\* from every argument.
C10_Frame ==
    [][(heap' # heap \/ origin' # origin) =>
          /\ Len(heap') > Len(heap)
          /\ \A o \in 1..Len(heap) : heap'[o] = heap[o] /\ origin'[o] = origin[o]
          /\ \A o \in (Len(heap) + 1)..Len(heap') :
               /\ origin'[o].fn # "caller"
               /\ \A n \in 1..Len(origin'[o].args) : origin'[o].args[n] <= Len(heap)]_vars

\* C10 witness: set_at_index returned a tensor that differs from tokens, and
\* tokens, index and value are as the caller made them.
C10_Witness ==
    \E r \in ReturnedBy("set_at_index") :
        /\ r > 4
        /\ origin[r].args = <<owned.tokens, owned.index, owned.value>>
        /\ heap[r] # heap[owned.tokens]
        /\ heap[owned.tokens] = Arange(heap[owned.tokens].shape, -2)
        /\ heap[owned.value] = Arange(heap[owned.value].shape, 101)
        /\ origin[owned.tokens] = ByCaller

\* ------------------------------------------------------------------------
\* cosine_scheduler
\* ------------------------------------------------------------------------
\* The entries of the schedule are floats; an entry is modelled by the
\* expression that computed it: <<"linspace", i, num>> is entry i of
\* np.linspace(start_warmup_value, base_value, num), and <<"cos", i, n>> is
\* final_value + 0.5 * (base_value - final_value) * (1 + cos(pi * i / n)).

\* np.linspace(start, stop, num): num entries (none for num = 0)
NpLinspace(num) == [i \in 1..num |-> <<"linspace", i - 1, num>>]

\* Mutant of NpArange: the stop value is included.
NpArangeInclusive(n) == [i \in 1..(n + 1) |-> i - 1]

\* np.arange(n): 0, 1, ..., n - 1, and the empty array for n <= 0
NpArange(n) == [i \in 1..n |-> i - 1]

\* final_value + 0.5 * (base_value - final_value)
\*     * (1 + np.cos(np.pi * iters / len(iters))), elementwise; dividing an
\* empty array by len(iters) = 0 gives an empty array
CosinePart(iters) == [i \in 1..Len(iters) |-> <<"cos", iters[i], Len(iters)>>]

InitSched ==
    /\ pc = "idle"
    /\ size = <<0, 0>>
    /\ mask_ratio = <<0, 1>>
    /\ mask_class_token = FALSE
    /\ noise = <<>>
    /\ idx_keep = <<>>
    /\ idx_mask = <<>>
    /\ heap = <<>>
    /\ origin = <<>>
    /\ owned = [family |-> "sched"]
    /\ epochs \in 0..MaxEpochs
    /\ niter_per_ep \in 0..MaxIterPerEp
    /\ warmup_epochs \in 0..MaxWarmup
    /\ schedule = <<>>
    /\ outcome = "pending"
    /\ ShuffleIdle

cosine_scheduler ==
    /\ outcome = "pending"
    /\ LET warmup_iters == warmup_epochs * niter_per_ep
           warmup_schedule == IF warmup_epochs > 0
                              THEN NpLinspace(warmup_iters)
                              ELSE <<>>
           iters == NpArange(epochs * niter_per_ep - warmup_iters)
           whole == warmup_schedule \o CosinePart(iters)
       IN /\ schedule' = whole
          /\ outcome' = IF Len(whole) = epochs * niter_per_ep
                        THEN "returned"
                        ELSE "AssertionError"
    /\ UNCHANGED <<epochs, niter_per_ep, warmup_epochs>>
    /\ UNCHANGED maskVars
    /\ UNCHANGED tensorVars
    /\ UNCHANGED shuffleVars

NextSched == cosine_scheduler

SpecSched == InitSched /\ [][NextSched]_vars

\* ------------------------------------------------------------------------
\* Properties of cosine_scheduler (checked under SpecSched)
\* ------------------------------------------------------------------------
\* The returned schedule has epochs * niter_per_ep entries: the first
\* warmup_epochs * niter_per_ep of them are the warm-up ramp in order, the
\* others the cosine part in order.
ScheduleAsClaimed ==
    LET total == epochs * niter_per_ep
        warmup_iters == warmup_epochs * niter_per_ep
    IN /\ Len(schedule) = total
       /\ warmup_iters <= total
       /\ \A i \in 1..warmup_iters :
             schedule[i] = <<"linspace", i - 1, warmup_iters>>
       /\ \A i \in (warmup_iters + 1)..total :
             schedule[i] = <<"cos", i - warmup_iters - 1, total - warmup_iters>>

Ranks == 0..(world_size - 1)

\* A value that is there, as opposed to None.
Some(x) == <<x>>

\* torch.randperm(n)
TorchRandperm(n) == Permutations0(n)

\* Mutant of Argsort1D: the permutation itself instead of its inverse.
Argsort1DSame(p) == p

\* torch.argsort(p) of a one-dimensional tensor
Argsort1D(p) == (CHOOSE ind \in Argsort(<<p>>, Len(p)) : TRUE)[1]

\* batch[idx]: the rows of batch at the positions idx
IndexRows(rows, idx) == [i \in 1..Len(idx) |-> rows[idx[i] + 1]]

\* idx.view(num_gpus, -1)[gpu_idx]
ViewRow(idx, num_gpus, gpu_idx) ==
    LET width == Len(idx) \div num_gpus
    IN SubSeq(idx, gpu_idx * width + 1, (gpu_idx + 1) * width)

RECURSIVE CatFrom(_, _, _)
\* torch.cat(output, dim=0) of the list output[first], ..., output[last - 1]
CatFrom(output, first, last) ==
    IF first >= last
    THEN <<>>
    ELSE output[first] \o CatFrom(output, first + 1, last)

\* every rank has contributed to all_gather call c
AllContributed(c) == \A r \in Ranks : gather_in[c][r] # None

\* concat_all_gather: output[r] is the tensor rank r contributed
ConcatAllGather(c) ==
    CatFrom([r \in Ranks |-> gather_in[c][r][1]], 0, world_size)

\* Mutant of Broadcast: the tensor of the receiving rank is left as it is.
BroadcastNotReceived(gpu_idx, local, sent) == local

\* dist.broadcast(idx_shuffle, src=0): what the tensor of rank gpu_idx holds
\* afterwards, sent being what rank 0 holds
Broadcast(gpu_idx, local, sent) == IF gpu_idx = 0 THEN local ELSE sent

InitShuffle ==
    /\ pc = "idle"
    /\ size = <<0, 0>>
    /\ mask_ratio = <<0, 1>>
    /\ mask_class_token = FALSE
    /\ noise = <<>>
    /\ idx_keep = <<>>
    /\ idx_mask = <<>>
    /\ heap = <<>>
    /\ origin = <<>>
    /\ owned = [family |-> "shuffle"]
    /\ SchedIdle
    /\ distributed \in BOOLEAN
    /\ world_size \in (IF distributed THEN 1..MaxRanks ELSE {1})
    /\ \E n \in 0..MaxLocal :
         /\ world_size * n <= MaxGlobal
         /\ batch = [r \in Ranks |-> [i \in 1..n |-> r * n + i - 1]]
    /\ rank_pc = [r \in Ranks |-> "start"]
    /\ gather_in = [c \in 1..2 |-> [r \in Ranks |-> None]]
    /\ batch_gather = [r \in Ranks |-> <<>>]
    /\ local_perm = [r \in Ranks |-> <<>>]
    /\ idx_shuffle = [r \in Ranks |-> <<>>]
    /\ bcast = None
    /\ shuffle = [r \in Ranks |-> <<>>]
    /\ shuffled = [r \in Ranks |-> <<>>]
    /\ unshuffled = [r \in Ranks |-> <<>>]

\* batch_shuffle(batch, distributed=False)
batch_shuffle ==
    /\ ~distributed
    /\ rank_pc[0] = "start"
    /\ \E perm \in TorchRandperm(Len(batch[0])) :
         /\ local_perm' = [local_perm EXCEPT ![0] = perm]
         /\ shuffle' = [shuffle EXCEPT ![0] = perm]
         /\ shuffled' = [shuffled EXCEPT ![0] = IndexRows(batch[0], perm)]
    /\ rank_pc' = [rank_pc EXCEPT ![0] = "shuffled"]
    /\ UNCHANGED <<distributed, world_size, batch, gather_in, batch_gather,
                   idx_shuffle, bcast, unshuffled>>
    /\ UNCHANGED <<maskVars, tensorVars, schedVars>>

\* batch_unshuffle(batch, shuffle, distributed=False), called with the batch
\* and the shuffle that batch_shuffle returned
batch_unshuffle ==
    /\ ~distributed
    /\ rank_pc[0] = "shuffled"
    /\ LET unshuffle == Argsort1D(shuffle[0])
       IN unshuffled' = [unshuffled EXCEPT ![0] = IndexRows(shuffled[0], unshuffle)]
    /\ rank_pc' = [rank_pc EXCEPT ![0] = "done"]
    /\ UNCHANGED <<distributed, world_size, batch, gather_in, batch_gather,
                   local_perm, idx_shuffle, bcast, shuffle, shuffled>>
    /\ UNCHANGED <<maskVars, tensorVars, schedVars>>

\* dist.all_gather(output, x): rank r enters the collective with its tensor;
\* call 1 is made by batch_shuffle_distributed (line 299) with the rank's
\* batch, call 2 by batch_unshuffle_distributed (line 341) with the shuffled
\* batch.  The rank leaves the collective when every rank has entered it.
all_gather(r) ==
    /\ distributed
    /\ rank_pc[r] \in {"start", "shuffled"}
    /\ LET c == IF rank_pc[r] = "start" THEN 1 ELSE 2
           x == IF rank_pc[r] = "start" THEN batch[r] ELSE shuffled[r]
       IN /\ gather_in' = [gather_in EXCEPT ![c][r] = Some(x)]
          /\ rank_pc' = [rank_pc EXCEPT ![r] =
                            IF c = 1 THEN "gathering" ELSE "ungathering"]
    /\ UNCHANGED <<distributed, world_size, batch, batch_gather, local_perm,
                   idx_shuffle, bcast, shuffle, shuffled, unshuffled>>
    /\ UNCHANGED <<maskVars, tensorVars, schedVars>>

\* batch_shuffle_distributed, lines 299-305: the gathered batch, num_gpus
\* (a division by batch_size_this) and the rank's own randperm
shuffle_randperm(r) ==
    /\ distributed
    /\ rank_pc[r] = "gathering"
    /\ AllContributed(1)
    /\ LET gathered == ConcatAllGather(1)
           batch_size_this == Len(batch[r])
       IN /\ batch_gather' = [batch_gather EXCEPT ![r] = gathered]
          /\ IF batch_size_this = 0
             THEN /\ rank_pc' = [rank_pc EXCEPT ![r] = "ZeroDivisionError"]
                  /\ UNCHANGED <<local_perm, idx_shuffle>>
             ELSE /\ \E perm \in TorchRandperm(Len(gathered)) :
                       /\ local_perm' = [local_perm EXCEPT ![r] = perm]
                       /\ idx_shuffle' = [idx_shuffle EXCEPT ![r] = perm]
                  /\ rank_pc' = [rank_pc EXCEPT ![r] = "drawn"]
    /\ UNCHANGED <<distributed, world_size, batch, gather_in, bcast, shuffle,
                   shuffled, unshuffled>>
    /\ UNCHANGED <<maskVars, tensorVars, schedVars>>

\* dist.broadcast(idx_shuffle, src=0), line 308: rank 0 sends its tensor, the
\* other ranks wait for it and receive it into theirs
dist_broadcast(r) ==
    /\ distributed
    /\ rank_pc[r] = "drawn"
    /\ r # 0 => bcast # None
    /\ LET sent == IF r = 0 THEN idx_shuffle[0] ELSE bcast[1]
       IN /\ idx_shuffle' = [idx_shuffle EXCEPT ![r] =
                                Broadcast(r, idx_shuffle[r], sent)]
          /\ bcast' = Some(sent)
    /\ rank_pc' = [rank_pc EXCEPT ![r] = "synced"]
    /\ UNCHANGED <<distributed, world_size, batch, gather_in, batch_gather,
                   local_perm, shuffle, shuffled, unshuffled>>
    /\ UNCHANGED <<maskVars, tensorVars, schedVars>>

\* batch_shuffle_distributed, lines 311-317
batch_shuffle_distributed(r) ==
    /\ distributed
    /\ rank_pc[r] = "synced"
    /\ LET num_gpus == Len(batch_gather[r]) \div Len(batch[r])
           idx_this == ViewRow(idx_shuffle[r], num_gpus, r)
       IN /\ shuffle' = [shuffle EXCEPT ![r] = Argsort1D(idx_shuffle[r])]
          /\ shuffled' = [shuffled EXCEPT ![r] =
                             IndexRows(batch_gather[r], idx_this)]
    /\ rank_pc' = [rank_pc EXCEPT ![r] = "shuffled"]
    /\ UNCHANGED <<distributed, world_size, batch, gather_in, batch_gather,
                   local_perm, idx_shuffle, bcast, unshuffled>>
    /\ UNCHANGED <<maskVars, tensorVars, schedVars>>

\* batch_unshuffle_distributed, lines 341-350, called with the batch and the
\* shuffle that batch_shuffle_distributed returned to the rank
batch_unshuffle_distributed(r) ==
    /\ distributed
    /\ rank_pc[r] = "ungathering"
    /\ AllContributed(2)
    /\ LET gathered == ConcatAllGather(2)
           num_gpus == Len(gathered) \div Len(shuffled[r])
           idx_this == ViewRow(shuffle[r], num_gpus, r)
       IN unshuffled' = [unshuffled EXCEPT ![r] = IndexRows(gathered, idx_this)]
    /\ rank_pc' = [rank_pc EXCEPT ![r] = "done"]
    /\ UNCHANGED <<distributed, world_size, batch, gather_in, batch_gather,
                   local_perm, idx_shuffle, bcast, shuffle, shuffled>>
    /\ UNCHANGED <<maskVars, tensorVars, schedVars>>

NextShuffle ==
    \/ batch_shuffle
    \/ batch_unshuffle
    \/ \E r \in Ranks : all_gather(r)
    \/ \E r \in Ranks : shuffle_randperm(r)
    \/ \E r \in Ranks : dist_broadcast(r)
    \/ \E r \in Ranks : batch_shuffle_distributed(r)
    \/ \E r \in Ranks : batch_unshuffle_distributed(r)

SpecShuffle == InitShuffle /\ [][NextShuffle]_vars

\* ------------------------------------------------------------------------
\* Properties of the shuffle (checked under SpecShuffle)
\* ------------------------------------------------------------------------
\* Rank r has returned from batch_shuffle.
Shuffled(r) == rank_pc[r] \in {"shuffled", "ungathering", "done"}

\* Rank r has passed the broadcast.
Synced(r) == rank_pc[r] = "synced" \/ Shuffled(r)

\* The global batch: the batches of the ranks in rank order.
GlobalBatch == CatFrom(batch, 0, world_size)

\* Every rank that has returned from batch_unshuffle holds exactly its own
\* original rows in their original order.
OwnRowsRestored ==
    \A r \in Ranks : rank_pc[r] = "done" => unshuffled[r] = batch[r]

\* C12 as claimed: in local mode for every batch, and in distributed mode for
\* every number of ranks with batches of one size, no call fails and
\* batch_unshuffle with the shuffle returned by batch_shuffle gives every
\* rank its own original rows in their original order.
C12_RestoresAsClaimed ==
    /\ \A r \in Ranks : rank_pc[r] # "ZeroDivisionError"
    /\ OwnRowsRestored

\* C12 (amended): batch_unshuffle with the shuffle returned by batch_shuffle
\* gives every rank its own original rows in their original order, in local
\* mode for every batch and in distributed mode for ranks with non-empty
\* batches of one size; with empty batches batch_shuffle_distributed fails
\* with ZeroDivisionError on every rank and returns nothing.
C12_Restores ==
    /\ OwnRowsRestored
    /\ \A r \in Ranks :
         IF distributed /\ Len(batch[r]) = 0
         THEN rank_pc[r] \in {"start", "gathering", "ZeroDivisionError"}
         ELSE rank_pc[r] # "ZeroDivisionError"

\* C12 witness: two ranks of two rows each have unshuffled; the permutation
\* was not its own inverse, and rank 0 held a row of rank 1 in between.
C12_Witness ==
    /\ distributed
    /\ world_size = 2
    /\ \A r \in Ranks : rank_pc[r] = "done" /\ Len(batch[r]) = 2
    /\ shuffle[0] # idx_shuffle[0]
    /\ \E i \in 1..2 : shuffled[0][i] = batch[1][1]
    /\ unshuffled[0] = <<0, 1>>
    /\ unshuffled[1] = <<2, 3>>

\* The rows that the ranks which have returned from batch_shuffle hold.
RowsHeld ==
    CatFrom([r \in Ranks |-> IF Shuffled(r) THEN shuffled[r] ELSE <<>>],
            0, world_size)

\* Every rank past the broadcast uses the permutation that rank 0 drew, and
\* the shuffled batches are a permutation of the global batch: no global row
\* is held twice, every rank that has returned holds as many rows as it
\* passed, and once all ranks have returned every global row is held.
OnePermutation ==
    /\ \A r \in Ranks : (distributed /\ Synced(r)) =>
           /\ idx_shuffle[r] = local_perm[0]
           /\ bcast = Some(local_perm[0])
    /\ \A r \in Ranks : (distributed /\ Shuffled(r)) =>
           /\ Len(shuffled[r]) = Len(batch[r])
           /\ shuffled[r] = IndexRows(GlobalBatch,
                                      ViewRow(local_perm[0], world_size, r))
    /\ distributed =>
           \A i \in 1..Len(GlobalBatch) :
               /\ Occurrences(RowsHeld, GlobalBatch[i]) <= 1
               /\ (\A r \in Ranks : Shuffled(r)) =>
                      Occurrences(RowsHeld, GlobalBatch[i]) = 1

\* C15 as claimed: in batch_shuffle_distributed with G ranks of equal batch
\* size n no rank fails, all ranks use the one permutation drawn by rank 0,
\* and the shuffled batches together are a permutation of the global batch of
\* G * n rows, n rows on each rank.
C15_OnePermutationAsClaimed ==
    /\ \A r \in Ranks : distributed => rank_pc[r] # "ZeroDivisionError"
    /\ OnePermutation

\* C15 (amended): in batch_shuffle_distributed with G ranks of equal batch
\* size n >= 1, all ranks use the one permutation drawn by rank 0, each
\* rank's own permutation being overwritten by the broadcast, and the
\* shuffled batches together are a permutation of the global batch of G * n
\* rows: every global row is held by exactly one rank exactly once and each
\* rank holds n rows.  With n = 0 every rank fails with ZeroDivisionError
\* before it draws a permutation.
C15_OnePermutation ==
    /\ OnePermutation
    /\ \A r \in Ranks : distributed =>
           IF Len(batch[r]) = 0
           THEN /\ rank_pc[r] \in {"start", "gathering", "ZeroDivisionError"}
                /\ local_perm[r] = <<>>
           ELSE rank_pc[r] # "ZeroDivisionError"

\* C15 witness: two ranks of two rows each have returned from
\* batch_shuffle_distributed; rank 1 had drawn another permutation than
\* rank 0, and each rank holds a row of the other.
C15_Witness ==
    /\ distributed
    /\ world_size = 2
    /\ \A r \in Ranks : rank_pc[r] = "shuffled" /\ Len(shuffled[r]) = 2
    /\ local_perm[1] # local_perm[0]
    /\ idx_shuffle[1] = local_perm[0]
    /\ \E i \in 1..2 : shuffled[0][i] \in {2, 3}
    /\ \E i \in 1..2 : shuffled[1][i] \in {0, 1}

====
